---- MODULE Spec2Model ----
(***************************************************************************)
(* FuzzyBBoxSmoother (src/src/fuzzy_bbox_smoother.py): a fuzzy controller  *)
(* computes a blend factor alpha from motion magnitude and detector        *)
(* confidence; the filter blends the box center with alpha and the box     *)
(* size with the fixed weight 0.5.                                         *)
(*                                                                         *)
(* Number representation.  Python floats are modelled in fixed point:      *)
(*   - pixel quantities (coordinates, centers, sizes, motion) in units of  *)
(*     1/Scale pixel, finite up to FloatMax units;                         *)
(*   - confidence and the alpha universe in hundredths (the step of the    *)
(*     universes np.arange(0, 1.01, 0.01));                                *)
(*   - membership degrees in units of 1/MuScale;                           *)
(*   - alpha and blend weights in units of 1/AlphaUnit.                    *)
(* Every float operation rounds its exact result to the nearest unit, as   *)
(* IEEE arithmetic rounds to the nearest representable value; a sum beyond *)
(* FloatMax is an infinity, and inf - inf and 0 * inf are NaN.  Inf, -Inf  *)
(* and NaN are reserved values outside the finite range; Python's None is  *)
(* one more.  Inf and -Inf compare as the largest and smallest number.     *)
(***************************************************************************)
EXTENDS Integers, Sequences, FiniteSets, TLC

\* ------------------------------------------------------------------------
\* Floats
\* ------------------------------------------------------------------------
Scale == 256
MuScale == 1000
UniverseSteps == 100
AlphaUnit == UniverseSteps * 100

FloatMax == 1000000000
Inf == 2000000000
NaN == 2100000000
None == -2100000000

Px(n) == n * Scale

Abs(x) == IF x < 0 THEN -x ELSE x
Min2(a, b) == IF a <= b THEN a ELSE b
Max2(a, b) == IF a >= b THEN a ELSE b

IsInf(x) == x = Inf \/ x = -Inf
IsFinite(x) == x # NaN /\ x # None /\ ~IsInf(x)

\* n / d rounded to the nearest integer (d > 0), halves away from zero
RoundDiv(n, d) == IF n >= 0 THEN (n + d \div 2) \div d
                            ELSE -((-n + d \div 2) \div d)

\* a finite result, or the infinity it overflows to
Overflow(v) == IF v > FloatMax THEN Inf ELSE IF v < -FloatMax THEN -Inf ELSE v

\* a + b
fadd(a, b) ==
    IF a = NaN \/ b = NaN THEN NaN
    ELSE IF IsInf(a) THEN (IF b = -a THEN NaN ELSE a)
    ELSE IF IsInf(b) THEN b
    ELSE Overflow(a + b)

\* a - b
fsub(a, b) == fadd(a, IF b = NaN THEN NaN ELSE -b)

\* a / 2
fhalf(a) == IF a = NaN \/ IsInf(a) THEN a ELSE RoundDiv(a, 2)

\* wgt * x for a weight wgt >= 0 in units of 1/AlphaUnit
fmul(wgt, x) ==
    IF wgt = NaN \/ x = NaN THEN NaN
    ELSE IF IsInf(x) THEN (IF wgt = 0 THEN NaN ELSE x)
    ELSE LET mag == (Abs(x) \div AlphaUnit) * wgt
                    + RoundDiv((Abs(x) % AlphaUnit) * wgt, AlphaUnit)
         IN  IF x < 0 THEN -mag ELSE mag

\* floor of the square root of n >= 0, by bisection on [lo, hi]
RECURSIVE SqrtBetween(_, _, _)
SqrtBetween(n, lo, hi) ==
    IF lo >= hi THEN lo
    ELSE LET mid == (lo + hi + 1) \div 2
         IN  IF mid * mid <= n THEN SqrtBetween(n, mid, hi)
                               ELSE SqrtBetween(n, lo, mid - 1)

MotionMax == 100

\* np.sqrt(dx**2 + dy**2).  A component of MotionMax pixels or more already
\* makes the root at least MotionMax pixels, the only thing the caller's clip
\* keeps of it; the larger component is returned for it, which keeps the
\* squares inside the integer range.
Magnitude(dx, dy) ==
    IF dx = NaN \/ dy = NaN THEN NaN
    ELSE IF IsInf(dx) \/ IsInf(dy) THEN Inf
    ELSE IF Abs(dx) >= Px(MotionMax) \/ Abs(dy) >= Px(MotionMax)
         THEN Max2(Abs(dx), Abs(dy))
    ELSE SqrtBetween(dx * dx + dy * dy, 0, 2 * Px(MotionMax))

\* variant: the clip left out
np_clip_Identity(x, lo, hi) == x

\* np.clip(x, lo, hi); NaN passes through
np_clip(x, lo, hi) == IF x = NaN THEN NaN ELSE Max2(lo, Min2(x, hi))

\* ------------------------------------------------------------------------
\* Membership functions
\* ------------------------------------------------------------------------
\* fuzz.trapmf(universe, [a, b, c, d]) at x, zero outside [a, d]
trapmf(x, abcd) ==
    LET a == abcd[1]
        b == abcd[2]
        c == abcd[3]
        d == abcd[4]
    IN  IF x < a \/ x > d THEN 0
        ELSE IF x < b THEN (MuScale * (x - a)) \div (b - a)
        ELSE IF x <= c THEN MuScale
        ELSE (MuScale * (d - x)) \div (d - c)

\* fuzz.trimf(universe, [a, b, c]) at x
trimf(x, abc) ==
    LET a == abc[1]
        b == abc[2]
        c == abc[3]
    IN  IF x <= a \/ x >= c THEN 0
        ELSE IF x <= b THEN (MuScale * (x - a)) \div (b - a)
        ELSE (MuScale * (c - x)) \div (c - b)

MotionTerms == {"small", "medium", "large"}
ConfidenceTerms == {"low", "medium", "high"}
AlphaTerms == {"very_small", "small", "medium", "large", "very_large"}

\* variant: the medium motion term starts at 10 pixels, which leaves the
\* magnitudes from 8 to 10 without a term
MotionMF_Gap ==
    [small  |-> <<Px(0), Px(0), Px(3), Px(8)>>,
     medium |-> <<Px(10), Px(12), Px(18), Px(25)>>,
     large  |-> <<Px(20), Px(40), Px(100), Px(100)>>]

\* breakpoints in 1/Scale pixel
MotionMF == [small  |-> <<Px(0), Px(0), Px(3), Px(8)>>,
             medium |-> <<Px(5), Px(12), Px(18), Px(25)>>,
             large  |-> <<Px(20), Px(40), Px(100), Px(100)>>]

\* breakpoints in hundredths
ConfidenceMF == [low    |-> <<0, 0, 30, 50>>,
                 medium |-> <<40, 50, 60, 70>>,
                 high   |-> <<60, 75, 100, 100>>]

\* variant: the very_large alpha term moved down to the middle of the range
AlphaMF_LowVeryLarge ==
    [very_small |-> <<0, 5, 15>>,
     small      |-> <<10, 20, 30>>,
     medium     |-> <<25, 40, 55>>,
     large      |-> <<50, 70, 85>>,
     very_large |-> <<50, 60, 70>>]

\* breakpoints in hundredths
AlphaMF == [very_small |-> <<0, 5, 15>>,
            small      |-> <<10, 20, 30>>,
            medium     |-> <<25, 40, 55>>,
            large      |-> <<50, 70, 85>>,
            very_large |-> <<80, 95, 100>>]

\* variant: small motion with high confidence selects the large alpha term
rules_SmallHighLarge ==
    { <<"small",  "high",   "large">>,
      <<"small",  "medium", "small">>,
      <<"small",  "low",    "small">>,
      <<"medium", "high",   "medium">>,
      <<"medium", "medium", "small">>,
      <<"medium", "low",    "very_small">>,
      <<"large",  "high",   "very_large">>,
      <<"large",  "medium", "large">>,
      <<"large",  "low",    "medium">> }

\* <<motion term, confidence term, alpha term>>
rules == { <<"small",  "high",   "very_small">>,
           <<"small",  "medium", "small">>,
           <<"small",  "low",    "small">>,
           <<"medium", "high",   "medium">>,
           <<"medium", "medium", "small">>,
           <<"medium", "low",    "very_small">>,
           <<"large",  "high",   "very_large">>,
           <<"large",  "medium", "large">>,
           <<"large",  "low",    "medium">> }

\* ------------------------------------------------------------------------
\* Inference: ControlSystemSimulation.compute()
\* ------------------------------------------------------------------------
MaxOf(S) == IF S = {} THEN 0 ELSE CHOOSE m \in S : \A s \in S : s <= m

\* firing strength of a rule: min of its two antecedent memberships
Firing(r, m, c) == Min2(trapmf(m, MotionMF[r[1]]), trapmf(c, ConfidenceMF[r[2]]))

\* the strongest rule concluding alpha term t
TermStrength(t, m, c) == MaxOf({Firing(r, m, c) : r \in {q \in rules : q[3] = t}})

\* per alpha term, its aggregated strength
Strength(m, c) ==
    [very_small |-> TermStrength("very_small", m, c),
     small      |-> TermStrength("small", m, c),
     medium     |-> TermStrength("medium", m, c),
     large      |-> TermStrength("large", m, c),
     very_large |-> TermStrength("very_large", m, c)]

\* the aggregated output set at point x of the alpha universe: the largest
\* of the term curves, each cut at its strength
Aggregate(s, x) ==
    LET a == Min2(s.very_small, trimf(x, AlphaMF.very_small))
        b == Min2(s.small, trimf(x, AlphaMF.small))
        c == Min2(s.medium, trimf(x, AlphaMF.medium))
        d == Min2(s.large, trimf(x, AlphaMF.large))
        e == Min2(s.very_large, trimf(x, AlphaMF.very_large))
        ab == Max2(a, b)
        cd == Max2(c, d)
        abcd == Max2(ab, cd)
    IN  Max2(abcd, e)

\* <<sum of x * aggregate(x), sum of aggregate(x)>> over the points lo..hi
RECURSIVE Sums(_, _, _)
Sums(s, lo, hi) ==
    IF lo = hi
    THEN CHOOSE p \in {<<lo * a, a>> : a \in {Aggregate(s, lo)}} : TRUE
    ELSE CHOOSE p \in {<<l[1] + r[1], l[2] + r[2]>> :
                         l \in {Sums(s, lo, (lo + hi) \div 2)},
                         r \in {Sums(s, (lo + hi) \div 2 + 1, hi)}} : TRUE

\* variant: the moment divided by the number of sample points instead of
\* the total membership
Centroid_PerPoint(moment, area) ==
    (moment * (AlphaUnit \div UniverseSteps)) \div (UniverseSteps + 1)

\* centroid of the aggregated set in units of 1/AlphaUnit
Centroid(moment, area) == (moment * (AlphaUnit \div UniverseSteps)) \div area

\* the centroid of the set aggregated from strengths s, or None when the set
\* is empty and the library raises instead of dividing by zero
Defuzz(s) ==
    LET sums == Sums(s, 0, UniverseSteps)
    IN  IF sums[2] = 0 THEN None ELSE Centroid(sums[1], sums[2])

\* compute(): the crisp alpha, or None when it raises
Compute(m, c) == CHOOSE out \in {Defuzz(s) : s \in {Strength(m, c)}} : TRUE

\* ------------------------------------------------------------------------
\* FuzzyBBoxSmoother
\* ------------------------------------------------------------------------
FallbackAlpha == (3 * AlphaUnit) \div 10
SizeWeight == AlphaUnit \div 2

\* FUZZY_CONFIG['min_detections']: read by no code
min_detections == 3

\* The instance after __init__: no stored center or size.  The simulation
\* object self.smoother also keeps the last inputs and output; smooth()
\* writes both inputs before every compute() and reads the output only after
\* a compute() that succeeded, so what it keeps is never read and is left out.
Construct ==
    [prev_cx |-> None, prev_cy |-> None, prev_w |-> None, prev_h |-> None]

\* variant: reset() that forgets the stored size
ResetState_KeepsSize(st) == [st EXCEPT !.prev_cx = None, !.prev_cy = None]

\* variant: reset() that clears prev_cx only
ResetState_CenterXOnly(st) == [st EXCEPT !.prev_cx = None]

\* reset()
ResetState(st) ==
    [st EXCEPT !.prev_cx = None, !.prev_cy = None, !.prev_w = None, !.prev_h = None]

\* variant: sizes counted inclusively, one pixel more
Geometry_InclusiveSize(bbox) ==
    [cx |-> fhalf(fadd(bbox[1], bbox[3])),
     cy |-> fhalf(fadd(bbox[2], bbox[4])),
     w  |-> fadd(fsub(bbox[3], bbox[1]), Px(1)),
     h  |-> fadd(fsub(bbox[4], bbox[2]), Px(1))]

\* cx, cy, w, h of a box (x1, y1, x2, y2)
Geometry(bbox) ==
    [cx |-> fhalf(fadd(bbox[1], bbox[3])),
     cy |-> fhalf(fadd(bbox[2], bbox[4])),
     w  |-> fsub(bbox[3], bbox[1]),
     h  |-> fsub(bbox[4], bbox[2])]

\* What the fuzzy library does with a NaN input is not fixed by this code:
\* compute() raises, or yields NaN, or the input is clipped to the universe.
\* On every other input it computes ("value").
LibOutcomes == {"raise", "nan", "clipped"}

\* except: alpha = 0.3, when compute() raised (out = None)
OrFallback(out) ==
    IF out = None THEN [alpha |-> FallbackAlpha, fallback |-> TRUE]
                  ELSE [alpha |-> out, fallback |-> FALSE]

\* try: input, compute(), output / except: alpha = 0.3
\* [alpha, fallback (the except branch ran)]
Inference(m, c, lib) ==
    IF m = NaN \/ c = NaN
    THEN CASE lib = "nan"     -> [alpha |-> NaN, fallback |-> FALSE]
           [] lib = "clipped" ->
                [alpha |-> Compute(IF m = NaN THEN Px(MotionMax) ELSE m,
                                   IF c = NaN THEN UniverseSteps ELSE c),
                 fallback |-> FALSE]
           [] OTHER           -> OrFallback(None)
    ELSE CHOOSE inf \in {OrFallback(out) : out \in {Compute(m, c)}} : TRUE

\* variant: the weight applied to the stored value instead of the raw one
Blend_WeightOnStored(prev, raw, wgt) == fadd(raw, fmul(wgt, fsub(prev, raw)))

\* prev + weight * (raw - prev)
Blend(prev, raw, wgt) == fadd(prev, fmul(wgt, fsub(raw, prev)))

\* variant: the size blended with alpha, like the center
Smoothed_AlphaForSize(st, g, alpha) ==
    [cx |-> Blend(st.prev_cx, g.cx, alpha),
     cy |-> Blend(st.prev_cy, g.cy, alpha),
     w  |-> Blend(st.prev_w, g.w, alpha),
     h  |-> Blend(st.prev_h, g.h, alpha)]

\* the smoothed center and size
Smoothed(st, g, alpha) ==
    [cx |-> Blend(st.prev_cx, g.cx, alpha),
     cy |-> Blend(st.prev_cy, g.cy, alpha),
     w  |-> Blend(st.prev_w, g.w, SizeWeight),
     h  |-> Blend(st.prev_h, g.h, SizeWeight)]

\* variant: floor instead of truncation
int_Floor(v) == (v \div Scale) * Scale

\* Python int() of a finite float: truncation toward zero, in whole pixels
int(v) == IF v >= 0 THEN (v \div Scale) * Scale ELSE -(((-v) \div Scale) * Scale)

\* int() raises ValueError on NaN and OverflowError on an infinity
IntRaises(v) == v = NaN \/ IsInf(v)

\* variant: the signs of the two x corners exchanged
Corners_XSwapped(s) ==
    << fadd(s.cx, fhalf(s.w)), fsub(s.cy, fhalf(s.h)),
       fsub(s.cx, fhalf(s.w)), fadd(s.cy, fhalf(s.h)) >>

\* the four corner expressions handed to int()
Corners(s) ==
    << fsub(s.cx, fhalf(s.w)), fsub(s.cy, fhalf(s.h)),
       fadd(s.cx, fhalf(s.w)), fadd(s.cy, fhalf(s.h)) >>

\* the tracking branch of smooth() once alpha is inferred: blend, write the
\* state, convert back to corners
Track(st, g, m, c, inf) ==
    LET s == Smoothed(st, g, inf.alpha)
        corners == Corners(s)
        \* int() raises after the state was written
        bad == \E i \in 1..4 : IntRaises(corners[i])
    IN  [st |-> [prev_cx |-> s.cx, prev_cy |-> s.cy, prev_w |-> s.w, prev_h |-> s.h],
         outcome |-> IF bad THEN "raise" ELSE "return",
         ret |-> IF bad THEN <<>> ELSE <<int(corners[1]), int(corners[2]),
                                         int(corners[3]), int(corners[4])>>,
         motion |-> m, conf |-> c, alpha |-> inf.alpha, fallback |-> inf.fallback]

\* the clipped motion magnitude of a box with geometry g against state st
Motion(st, g) ==
    np_clip(Magnitude(fsub(g.cx, st.prev_cx), fsub(g.cy, st.prev_cy)),
            Px(0), Px(MotionMax))

\* smooth(bbox, conf) on an instance in state st:
\* [st (the state after), outcome, ret, motion, conf (both as clipped), alpha,
\*  fallback]
SmoothStep(st, bbox, conf, lib) ==
    LET g == Geometry(bbox)
    IN  IF st.prev_cx = None
        THEN [st |-> [prev_cx |-> g.cx, prev_cy |-> g.cy, prev_w |-> g.w, prev_h |-> g.h],
              outcome |-> "return", ret |-> bbox,
              motion |-> None, conf |-> None, alpha |-> None, fallback |-> FALSE]
        ELSE LET m == Motion(st, g)
                 c == np_clip(conf, 0, UniverseSteps)
             IN  CHOOSE r \in {Track(st, g, m, c, inf) : inf \in {Inference(m, c, lib)}} : TRUE

\* get_debug_info(): the four stored values
get_debug_info(st) == <<st.prev_cx, st.prev_cy, st.prev_w, st.prev_h>>

\* ------------------------------------------------------------------------
\* Inputs and bounds
\* ------------------------------------------------------------------------
\* smooth calls since construction or the last reset
MaxCalls == 2

\* smooth calls on one instance when the same call is repeated
MaxRepeats == 100

\* frames read by LiveHandDetection.run()
MaxFrames == 3
\* detections in one frame
MaxDetections == 2

\* a finite coordinate so large that the sum of two overflows
Huge == 3 * (FloatMax \div 4)

\* boxes (x1, y1, x2, y2) in 1/Scale pixel: the two boxes of the end-to-end
\* scenarios, the box of the reset scenario (more than MotionMax pixels away
\* from those), a box with negative and fractional coordinates
\* (-30.5, -20.25, -10.25, 5.5), a malformed box (x1 > x2, y1 > y2) and a
\* well-formed box far out on the x axis
BBoxes ==
    { <<Px(100), Px(100), Px(200), Px(200)>>,
      <<Px(110), Px(100), Px(210), Px(200)>>,
      <<Px(0), Px(0), Px(10), Px(10)>>,
      <<Px(-61) \div 2, Px(-81) \div 4, Px(-41) \div 4, Px(11) \div 2>>,
      <<Px(60), Px(70), Px(40), Px(50)>>,
      <<Huge, Px(0), Huge, Px(10)>> }

\* confidences in hundredths, two of them outside [0, 1]
Confs == {-50, 45, 90, 150}

\* the library outcomes open to a smooth call
LibChoices(st, bbox) ==
    IF st.prev_cx # None /\ Motion(st, Geometry(bbox)) = NaN THEN LibOutcomes
                                                             ELSE {"value"}

WellFormed(bbox) ==
    /\ \A i \in 1..4 : IsFinite(bbox[i])
    /\ bbox[1] <= bbox[3]
    /\ bbox[2] <= bbox[4]

\* ------------------------------------------------------------------------
\* State machine
\* ------------------------------------------------------------------------
VARIABLES
    smoother,   \* the FuzzyBBoxSmoother instance
    last,       \* the last call on it: operation, arguments, state before, result
    calls,      \* smooth calls since construction or the last reset
    resets,     \* TRUE once reset was called
    reset_in,   \* the state the last reset was called in
    wellformed, \* every bbox since construction or the last reset was well-formed
    fresh,      \* a second instance, constructed when the first was last reset,
                \* that receives the same smooth calls from then on
    fresh_last, \* outcome and result of the last smooth call on fresh
    live        \* the LiveHandDetection application that owns the instance

vars == <<smoother, last, calls, resets, reset_in, wellformed, fresh, fresh_last, live>>

NoCall == [op |-> "__init__", bbox |-> <<>>, conf |-> None, pre |-> Construct,
           outcome |-> "return", ret |-> <<>>,
           motion |-> None, clipped |-> None, alpha |-> None, fallback |-> FALSE]

NoResult == [outcome |-> "return", ret |-> <<>>]

\* LiveHandDetection after __init__, before the first frame: the flags of the
\* application, where its loop stands (pc), and a record of the last frame:
\* raw and drawn boxes, and what one filter instance per detection slot (own)
\* draws for the same frames and keys
NoLive == [pc |-> "frame", smoothing_enabled |-> TRUE, show_raw_boxes |-> TRUE,
           frames |-> 0, op |-> "__init__", raw |-> <<>>, drawn |-> <<>>,
           own |-> [k \in 1..MaxDetections |-> Construct], own_drawn |-> <<>>,
           resuming |-> FALSE, resumed |-> FALSE]

Uninitialized(st) == st.prev_cx = None

Init ==
    /\ smoother = Construct
    /\ last = NoCall
    /\ calls = 0
    /\ resets = FALSE
    /\ reset_in = "never"
    /\ wellformed = TRUE
    /\ fresh = Construct
    /\ fresh_last = NoResult
    /\ live = NoLive

Smooth(bbox, conf, lib) ==
    /\ calls < MaxCalls
    /\ \E r \in {SmoothStep(smoother, bbox, conf, lib)} :
           /\ smoother' = r.st
           /\ last' = [op |-> "smooth", bbox |-> bbox, conf |-> conf, pre |-> smoother,
                       outcome |-> r.outcome, ret |-> r.ret,
                       motion |-> r.motion, clipped |-> r.conf,
                       alpha |-> r.alpha, fallback |-> r.fallback]
    /\ calls' = calls + 1
    /\ wellformed' = (wellformed /\ WellFormed(bbox))
    /\ IF resets
       THEN \E f \in {SmoothStep(fresh, bbox, conf, lib)} :
                /\ fresh' = f.st
                /\ fresh_last' = [outcome |-> f.outcome, ret |-> f.ret]
       ELSE UNCHANGED <<fresh, fresh_last>>
    /\ UNCHANGED <<resets, reset_in, live>>

Reset ==
    /\ smoother' = ResetState(smoother)
    /\ last' = [NoCall EXCEPT !.op = "reset"]
    /\ calls' = 0
    /\ resets' = TRUE
    /\ reset_in' = IF Uninitialized(smoother) THEN "Uninitialized" ELSE "Tracking"
    /\ wellformed' = TRUE
    /\ fresh' = Construct
    /\ fresh_last' = NoResult
    /\ UNCHANGED live

GetDebugInfo ==
    /\ last.op # "get_debug_info"
    /\ last' = [NoCall EXCEPT !.op = "get_debug_info", !.pre = smoother,
                              !.ret = get_debug_info(smoother)]
    /\ UNCHANGED <<smoother, calls, resets, reset_in, wellformed, fresh, fresh_last, live>>

Next ==
    \/ \E bbox \in BBoxes, conf \in Confs :
           \E lib \in LibChoices(smoother, bbox) : Smooth(bbox, conf, lib)
    \/ Reset
    \/ GetDebugInfo

Spec == Init /\ [][Next]_vars

\* ------------------------------------------------------------------------
\* The inference alone, over a grid of clipped inputs
\* ------------------------------------------------------------------------
\* motion magnitudes every 1/MotionGrid pixel
MotionGrid == 2

ProbeMotions == {(k * Scale) \div MotionGrid : k \in 0..(MotionMax * MotionGrid)}
ProbeConfs == 0..UniverseSteps

InitInfer ==
    /\ smoother = Construct
    /\ \E m \in ProbeMotions, c \in ProbeConfs :
           last = [NoCall EXCEPT !.op = "probe", !.motion = m, !.clipped = c]
    /\ calls = 0
    /\ resets = FALSE
    /\ reset_in = "never"
    /\ wellformed = TRUE
    /\ fresh = Construct
    /\ fresh_last = NoResult
    /\ live = NoLive

Infer ==
    /\ last.op = "probe"
    /\ \E inf \in {Inference(last.motion, last.clipped, "value")} :
           last' = [last EXCEPT !.op = "infer", !.alpha = inf.alpha,
                                !.fallback = inf.fallback]
    /\ UNCHANGED <<smoother, calls, resets, reset_in, wellformed, fresh, fresh_last, live>>

SpecInfer == InitInfer /\ [][Infer]_vars

\* ------------------------------------------------------------------------
\* LiveHandDetection: the detection loop around one smoother instance
\* ------------------------------------------------------------------------
\* what the detector hands over: integer pixel boxes (box.astype(int)) and a
\* confidence; with such boxes no smooth call raises
LiveBoxes == { <<Px(100), Px(100), Px(200), Px(200)>>,
               <<Px(110), Px(100), Px(210), Px(200)>> }
LiveConfs == {90}
Detections == {[bbox |-> b, conf |-> c] : b \in LiveBoxes, c \in LiveConfs}
Frames == UNION {[1..n -> Detections] : n \in 0..MaxDetections}

\* process_frame: for detection in detections, from the k-th on, on the one
\* instance self.smoother: smooth and draw when smoothing is enabled, reset
\* when it is not.  [st (the instance after), drawn (the smoothed boxes)]
RECURSIVE DetectionLoop(_, _, _, _)
DrawnThen(r, dets, k, enabled) ==
    CHOOSE out \in {[st |-> rest.st, drawn |-> <<r.ret>> \o rest.drawn] :
                        rest \in {DetectionLoop(r.st, dets, k + 1, enabled)}} : TRUE
DetectionLoop(st, dets, k, enabled) ==
    IF k > Len(dets) THEN [st |-> st, drawn |-> <<>>]
    ELSE IF enabled
         THEN CHOOSE out \in {DrawnThen(r, dets, k, enabled) :
                  r \in {SmoothStep(st, dets[k].bbox, dets[k].conf, "value")}} : TRUE
         ELSE DetectionLoop(ResetState(st), dets, k + 1, enabled)

\* the same loop with one instance per detection slot: the k-th detection of
\* a frame goes to own[k].  [own (the instances after), drawn]
RECURSIVE OwnLoop(_, _, _, _)
OwnDrawnThen(r, own, dets, k, enabled) ==
    CHOOSE out \in {[own |-> rest.own, drawn |-> <<r.ret>> \o rest.drawn] :
                        rest \in {OwnLoop([own EXCEPT ![k] = r.st], dets, k + 1, enabled)}} : TRUE
OwnLoop(own, dets, k, enabled) ==
    IF k > Len(dets) THEN [own |-> own, drawn |-> <<>>]
    ELSE IF enabled
         THEN CHOOSE out \in {OwnDrawnThen(r, own, dets, k, enabled) :
                  r \in {SmoothStep(own[k], dets[k].bbox, dets[k].conf, "value")}} : TRUE
         ELSE OwnLoop([own EXCEPT ![k] = ResetState(own[k])], dets, k + 1, enabled)

InitLive == Init

\* one pass of the while loop up to cv2.waitKey: process_frame(frame)
ProcessFrame(dets) ==
    /\ live.pc = "frame"
    /\ live.frames < MaxFrames
    /\ \E r \in {DetectionLoop(smoother, dets, 1, live.smoothing_enabled)},
          o \in {OwnLoop(live.own, dets, 1, live.smoothing_enabled)} :
           /\ smoother' = r.st
           /\ live' = [live EXCEPT
                  !.pc = "key", !.frames = @ + 1, !.op = "process_frame",
                  !.raw = [k \in 1..Len(dets) |-> dets[k].bbox],
                  !.drawn = r.drawn, !.own = o.own, !.own_drawn = o.drawn,
                  \* the first smooth call since smoothing was switched on again
                  !.resumed = live.resuming /\ live.smoothing_enabled /\ Len(dets) > 0,
                  !.resuming = @ /\ ~(live.smoothing_enabled /\ Len(dets) > 0)]
    /\ UNCHANGED <<last, calls, resets, reset_in, wellformed, fresh, fresh_last>>

\* what a key handler leaves of the record of the last frame
AfterKey(key) ==
    [live EXCEPT !.pc = "frame", !.op = key, !.raw = <<>>, !.drawn = <<>>,
                 !.own_drawn = <<>>, !.resumed = FALSE]

\* key 's': smoothing_enabled = not smoothing_enabled
KeyToggleSmoothing ==
    /\ live.pc = "key"
    /\ live' = [AfterKey("toggle_smoothing") EXCEPT
                  !.smoothing_enabled = ~live.smoothing_enabled,
                  !.resuming = ~live.smoothing_enabled]
    /\ UNCHANGED <<smoother, last, calls, resets, reset_in, wellformed, fresh, fresh_last>>

\* key 'r': self.smoother.reset()
KeyResetSmoothing ==
    /\ live.pc = "key"
    /\ smoother' = ResetState(smoother)
    /\ live' = [AfterKey("reset_smoothing") EXCEPT
                  !.own = [k \in 1..MaxDetections |-> ResetState(live.own[k])]]
    /\ UNCHANGED <<last, calls, resets, reset_in, wellformed, fresh, fresh_last>>

\* key 't': show_raw_boxes = not show_raw_boxes
KeyToggleRawBoxes ==
    /\ live.pc = "key"
    /\ live' = [AfterKey("toggle_raw_boxes") EXCEPT !.show_raw_boxes = ~live.show_raw_boxes]
    /\ UNCHANGED <<smoother, last, calls, resets, reset_in, wellformed, fresh, fresh_last>>

\* no key within the wait, or a key that only concerns the help overlay
NoKey ==
    /\ live.pc = "key"
    /\ live' = AfterKey("no_key")
    /\ UNCHANGED <<smoother, last, calls, resets, reset_in, wellformed, fresh, fresh_last>>

\* key 'q': break
KeyQuit ==
    /\ live.pc = "key"
    /\ live' = [AfterKey("quit") EXCEPT !.pc = "done"]
    /\ UNCHANGED <<smoother, last, calls, resets, reset_in, wellformed, fresh, fresh_last>>

NextLive ==
    \/ \E dets \in Frames : ProcessFrame(dets)
    \/ KeyToggleSmoothing
    \/ KeyResetSmoothing
    \/ KeyToggleRawBoxes
    \/ NoKey
    \/ KeyQuit

SpecLive == InitLive /\ [][NextLive]_vars

\* ------------------------------------------------------------------------
\* A stationary detection: the same smooth call again and again
\* ------------------------------------------------------------------------
\* the Tracking states a cold start leaves
TrackingStates == {SmoothStep(Construct, a, 90, "value").st : a \in BBoxes}

\* an instance in a Tracking state and the call (bbox, conf) to be repeated
InitStationary ==
    /\ smoother \in TrackingStates
    /\ \E bbox \in BBoxes, conf \in Confs :
           last = [NoCall EXCEPT !.op = "stationary", !.bbox = bbox, !.conf = conf,
                                 !.pre = smoother]
    /\ calls = 1
    /\ resets = FALSE
    /\ reset_in = "never"
    /\ wellformed = TRUE
    /\ fresh = Construct
    /\ fresh_last = NoResult
    /\ live = NoLive

\* smooth(bbox, conf) with the arguments of the call before
Repeat(lib) ==
    /\ calls < MaxRepeats
    /\ \E r \in {SmoothStep(smoother, last.bbox, last.conf, lib)} :
           /\ smoother' = r.st
           /\ last' = [op |-> "smooth", bbox |-> last.bbox, conf |-> last.conf,
                       pre |-> smoother, outcome |-> r.outcome, ret |-> r.ret,
                       motion |-> r.motion, clipped |-> r.conf,
                       alpha |-> r.alpha, fallback |-> r.fallback]
    /\ calls' = calls + 1
    /\ UNCHANGED <<resets, reset_in, wellformed, fresh, fresh_last, live>>

NextStationary == \E lib \in LibChoices(smoother, last.bbox) : Repeat(lib)

SpecStationary == InitStationary /\ [][NextStationary]_vars

\* ------------------------------------------------------------------------
\* Properties
\* ------------------------------------------------------------------------
ColdCall == last.op = "smooth" /\ Uninitialized(last.pre)
TrackingCall == last.op = "smooth" /\ ~Uninitialized(last.pre)
Returned == last.outcome = "return"

\* C1: the first smooth call on an uninitialized filter returns the input
\* bbox itself, whatever the confidence, and stores the midpoint
\* ((x1+x2)/2, (y1+y2)/2) and the size (x2-x1, y2-y1) of the bbox.
C1_ColdStartIdentity ==
    ColdCall =>
        /\ Returned
        /\ last.ret = last.bbox
        /\ smoother.prev_cx = fhalf(fadd(last.bbox[1], last.bbox[3]))
        /\ smoother.prev_cy = fhalf(fadd(last.bbox[2], last.bbox[4]))
        /\ smoother.prev_w = fsub(last.bbox[3], last.bbox[1])
        /\ smoother.prev_h = fsub(last.bbox[4], last.bbox[2])
        /\ ~Uninitialized(smoother)

\* end-to-end scenario 1 happened
C1_Witness ==
    /\ ColdCall
    /\ last.bbox = <<Px(100), Px(100), Px(200), Px(200)>>
    /\ last.conf = 90
    /\ last.ret = <<Px(100), Px(100), Px(200), Px(200)>>
    /\ smoother = [prev_cx |-> Px(150), prev_cy |-> Px(150),
                   prev_w |-> Px(100), prev_h |-> Px(100)]

\* C2: reset() leaves the filter as constructed, and from then on it returns
\* the same results and reaches the same states as a newly constructed filter
\* given the same smooth calls.
C2_ResetAsFresh ==
    /\ last.op = "reset" => smoother = Construct
    /\ resets =>
          /\ smoother = fresh
          /\ last.op = "smooth" =>
                /\ last.outcome = fresh_last.outcome
                /\ last.ret = fresh_last.ret

\* a blending call after a reset that was made in state Tracking
C2_Witness ==
    /\ resets
    /\ reset_in = "Tracking"
    /\ TrackingCall
    /\ Returned
    /\ last.ret # last.bbox

\* C3: the four stored values are all absent or all present.
C3_NeverPartial ==
    \/ /\ smoother.prev_cx = None
       /\ smoother.prev_cy = None
       /\ smoother.prev_w = None
       /\ smoother.prev_h = None
    \/ /\ smoother.prev_cx # None
       /\ smoother.prev_cy # None
       /\ smoother.prev_w # None
       /\ smoother.prev_h # None

\* reset() was called in state Tracking and left nothing stored
C3_Witness ==
    /\ last.op = "reset"
    /\ reset_in = "Tracking"
    /\ get_debug_info(smoother) = <<None, None, None, None>>

\* C4: for every clipped motion magnitude and confidence the inferred alpha
\* lies in [0, 1].
C4_AlphaBounds ==
    last.op = "infer" => (0 <= last.alpha /\ last.alpha <= AlphaUnit)

\* the inference ran on a fractional motion and gave an alpha above 0.9
C4_Witness ==
    /\ last.op = "infer"
    /\ last.motion % Scale # 0
    /\ ~last.fallback
    /\ last.alpha > 9 * (AlphaUnit \div 10)
    /\ last.alpha <= AlphaUnit

\* C5 (as claimed): every smooth call returns four finite numbers and never
\* raises.
C5_AlwaysFourFinite ==
    last.op = "smooth" =>
        /\ Returned
        /\ Len(last.ret) = 4
        /\ \A i \in 1..4 : IsFinite(last.ret[i])

\* the corner values of the stored (blended) center and size
StoredCorners ==
    << fsub(smoother.prev_cx, fhalf(smoother.prev_w)),
       fsub(smoother.prev_cy, fhalf(smoother.prev_h)),
       fadd(smoother.prev_cx, fhalf(smoother.prev_w)),
       fadd(smoother.prev_cy, fhalf(smoother.prev_h)) >>

\* r is v with its fraction dropped: a whole pixel, toward zero from v
IsTruncation(r, v) ==
    /\ r % Scale = 0
    /\ v >= 0 => (r <= v /\ v < r + Scale)
    /\ v < 0 => (r - Scale < v /\ v <= r)

\* r is a whole pixel nearest to v (a half may go either way)
IsNearest(r, v) ==
    /\ r % Scale = 0
    /\ 2 * Abs(v - r) <= Scale

\* C6 (as claimed): the corners returned by a tracking call are the blended
\* center plus/minus half the blended size, rounded to the nearest pixel.
C6_CornersRounded ==
    (TrackingCall /\ Returned) =>
        \A i \in 1..4 : IsNearest(last.ret[i], StoredCorners[i])

\* C6 (amended): the corners returned by a tracking call are the blended
\* center plus/minus half the blended size, truncated toward zero.
C6_CornersTruncated ==
    (TrackingCall /\ Returned) =>
        \A i \in 1..4 : IsTruncation(last.ret[i], StoredCorners[i])

\* a tracking call returned a corner that was negative and fractional
C6_Witness ==
    /\ TrackingCall
    /\ Returned
    /\ \E i \in 1..4 : StoredCorners[i] < 0 /\ StoredCorners[i] % Scale # 0

\* C7: a tracking call moves each stored size halfway to the raw size,
\* whatever the confidence, the motion and alpha.
C7_SizeHalfway ==
    TrackingCall =>
        LET w == fsub(last.bbox[3], last.bbox[1])
            h == fsub(last.bbox[4], last.bbox[2])
        IN  /\ smoother.prev_w = fadd(last.pre.prev_w, fhalf(fsub(w, last.pre.prev_w)))
            /\ smoother.prev_h = fadd(last.pre.prev_h, fhalf(fsub(h, last.pre.prev_h)))

\* a tracking call changed the stored width with an alpha other than 0.5
C7_Witness ==
    /\ TrackingCall
    /\ Returned
    /\ last.alpha # SizeWeight
    /\ smoother.prev_w # last.pre.prev_w
    /\ smoother.prev_cx # last.pre.prev_cx

\* the unclipped distance between the raw center of the last bbox and the
\* center stored before the call
RawDistance ==
    LET g == Geometry(last.bbox)
    IN  Magnitude(fsub(g.cx, last.pre.prev_cx), fsub(g.cy, last.pre.prev_cy))

\* the last call ended like the call with result r
SameAs(r) ==
    /\ smoother = r.st
    /\ last.outcome = r.outcome
    /\ last.ret = r.ret
    /\ last.alpha = r.alpha

\* C8: in a tracking call a confidence below 0 acts as 0, a confidence above
\* 1 as 1, and a distance above MotionMax pixels gives the alpha of a
\* distance of MotionMax pixels.
C8_Clamped ==
    (TrackingCall /\ last.motion # NaN) =>
        /\ last.conf < 0 => SameAs(SmoothStep(last.pre, last.bbox, 0, "value"))
        /\ last.conf > UniverseSteps =>
              SameAs(SmoothStep(last.pre, last.bbox, UniverseSteps, "value"))
        /\ RawDistance > Px(MotionMax) =>
              last.alpha = Inference(Px(MotionMax),
                                     Max2(0, Min2(last.conf, UniverseSteps)),
                                     "value").alpha

\* a tracking call with a negative confidence and a box more than MotionMax
\* pixels away returned
C8_Witness ==
    /\ TrackingCall
    /\ Returned
    /\ last.conf < 0
    /\ RawDistance > Px(MotionMax)
    /\ IsFinite(RawDistance)

\* C10: while every bbox since construction or the last reset was
\* well-formed, the stored sizes are not negative and every returned box has
\* x1 <= x2 and y1 <= y2.
C10_GeometricConsistency ==
    wellformed =>
        /\ ~Uninitialized(smoother) => (smoother.prev_w >= 0 /\ smoother.prev_h >= 0)
        /\ (last.op = "smooth" /\ Returned) =>
              (last.ret[1] <= last.ret[3] /\ last.ret[2] <= last.ret[4])

\* a tracking call on well-formed boxes returned a box of positive size
C10_Witness ==
    /\ wellformed
    /\ TrackingCall
    /\ Returned
    /\ last.ret[1] < last.ret[3]
    /\ last.ret[2] < last.ret[4]
\* C11 (as claimed): every detection is smoothed by a filter of its own: the
\* boxes drawn for a frame are the boxes that one filter instance per
\* detection, fed only that detection's earlier boxes, would give.
C11_OwnFilterPerObject ==
    live.op = "process_frame" => live.drawn = live.own_drawn

\* a box whose corners are whole pixels, as the detector gives them
IntegerBox(bbox) == \A i \in 1..4 : IsFinite(bbox[i]) /\ bbox[i] % Scale = 0

\* C12 (as claimed): a smooth call that is not yet the min_detections-th since
\* construction or the last reset returns its box unchanged (for boxes in
\* whole pixels, which the conversion to integers leaves as they are).
C12_NoSmoothingBeforeMin ==
    (last.op = "smooth" /\ calls < min_detections /\ IntegerBox(last.bbox))
        => last.ret = last.bbox

\* the rules that fire with nonzero strength on motion m and confidence c
FiringRules(m, c) == {r \in rules : Firing(r, m, c) > 0}

\* C13: with motion magnitude 0 and confidence 0.9 the inferred alpha is at
\* most 0.2, and the only rule that fires is small motion / high confidence,
\* which selects the very_small alpha term.
C13_StableAtRest ==
    (last.op = "infer" /\ last.motion = Px(0) /\ last.clipped = 90) =>
        /\ ~last.fallback
        /\ 0 <= last.alpha /\ last.alpha <= (2 * AlphaUnit) \div 10
        /\ FiringRules(last.motion, last.clipped) = {<<"small", "high", "very_small">>}

\* the inference ran on motion 0 and confidence 0.9 and gave an alpha within
\* the very_small term
C13_Witness ==
    /\ last.op = "infer"
    /\ last.motion = Px(0)
    /\ last.clipped = 90
    /\ ~last.fallback
    /\ last.alpha > 0
    /\ last.alpha < (15 * AlphaUnit) \div 100

\* C14: with motion magnitude 90 and confidence 0.9 the inferred alpha is at
\* least 0.8, and the only rule that fires is large motion / high confidence,
\* which selects the very_large alpha term.
C14_ResponsiveWhenFast ==
    (last.op = "infer" /\ last.motion = Px(90) /\ last.clipped = 90) =>
        /\ ~last.fallback
        /\ (8 * AlphaUnit) \div 10 <= last.alpha /\ last.alpha <= AlphaUnit
        /\ FiringRules(last.motion, last.clipped) = {<<"large", "high", "very_large">>}

\* the inference ran on motion 90 and confidence 0.9 and gave an alpha within
\* the very_large term
C14_Witness ==
    /\ last.op = "infer"
    /\ last.motion = Px(90)
    /\ last.clipped = 90
    /\ ~last.fallback
    /\ last.alpha > (8 * AlphaUnit) \div 10
    /\ last.alpha < AlphaUnit

\* the second call of scenario 2: smooth((110,100,210,200), 0.9) on a filter
\* whose only call so far was the cold start on (100,100,200,200)
Scenario2 ==
    /\ last.op = "smooth"
    /\ calls = 2
    /\ last.pre = [prev_cx |-> Px(150), prev_cy |-> Px(150),
                   prev_w |-> Px(100), prev_h |-> Px(100)]
    /\ last.bbox = <<Px(110), Px(100), Px(210), Px(200)>>
    /\ last.conf = 90

\* C15: in scenario 2 the motion magnitude is 10, the medium motion / high
\* confidence rule fires and no rule fires more strongly, alpha lies in
\* [0.35, 0.45], the stored center x lies in [153, 155], the stored center y
\* is 150, the stored size is (100, 100), and the returned corners have
\* y1 = 100, y2 = 200 and x2 - x1 = 100.
C15_Scenario2 ==
    Scenario2 =>
        /\ last.motion = Px(10)
        /\ last.clipped = 90
        /\ Firing(<<"medium", "high", "medium">>, last.motion, last.clipped) > 0
        /\ \A r \in rules :
               Firing(r, last.motion, last.clipped)
                   <= Firing(<<"medium", "high", "medium">>, last.motion, last.clipped)
        /\ ~last.fallback
        /\ (35 * AlphaUnit) \div 100 <= last.alpha
        /\ last.alpha <= (45 * AlphaUnit) \div 100
        /\ Px(153) <= smoother.prev_cx /\ smoother.prev_cx <= Px(155)
        /\ smoother.prev_cy = Px(150)
        /\ smoother.prev_w = Px(100)
        /\ smoother.prev_h = Px(100)
        /\ Returned
        /\ Len(last.ret) = 4
        /\ last.ret[2] = Px(100)
        /\ last.ret[4] = Px(200)
        /\ last.ret[3] - last.ret[1] = Px(100)

\* scenario 2 ran and left the stored center x at 154
C15_Witness ==
    /\ Scenario2
    /\ Returned
    /\ smoother.prev_cx = Px(154)
    /\ last.ret = <<Px(104), Px(100), Px(204), Px(200)>>

\* a sixteenth of a pixel
Tolerance == Scale \div 16

\* the stored center is within tol of the raw center of the repeated box
CenterWithin(tol) ==
    LET g == Geometry(last.bbox)
    IN  /\ IsFinite(smoother.prev_cx) /\ IsFinite(smoother.prev_cy)
        /\ IsFinite(g.cx) /\ IsFinite(g.cy)
        /\ Abs(smoother.prev_cx - g.cx) <= tol
        /\ Abs(smoother.prev_cy - g.cy) <= tol

\* a call made with the stored center and size equal to the raw ones left
\* the state as it was and returned the box
FixedPoint ==
    LET g == Geometry(last.bbox)
    IN  (/\ last.op = "smooth"
         /\ IntegerBox(last.bbox)
         /\ last.pre = [prev_cx |-> g.cx, prev_cy |-> g.cy,
                        prev_w |-> g.w, prev_h |-> g.h])
        => (smoother = last.pre /\ Returned /\ last.ret = last.bbox)

\* calls after which a repeated detection has settled
SettleCalls == MaxRepeats - 10

\* C16 (as claimed): from any Tracking state, repeating one smooth call
\* brings the stored center to within the tolerance of the raw center after
\* finitely many calls, where it stays, and the raw center and size are a
\* fixed point of the call.
C16_Converges ==
    /\ (last.op = "smooth" /\ calls >= SettleCalls) => CenterWithin(Tolerance)
    /\ FixedPoint

\* x lies in the closed interval between a and b
Between(a, x, b) ==
    /\ a # NaN /\ x # NaN /\ b # NaN
    /\ Min2(a, b) <= x
    /\ x <= Max2(a, b)

\* from prev to new the stored coordinate did not overshoot raw, and came
\* strictly closer to it unless it was there already
Approaches(prev, new, raw) ==
    /\ Between(prev, new, raw)
    /\ raw # prev => Abs(new - raw) < Abs(prev - raw)

\* C17 (as claimed): in every tracking call, on each axis the new stored
\* center lies between the previous stored center and the raw center, and is
\* strictly closer to the raw center whenever the two differed.
C17_NoOvershoot ==
    TrackingCall =>
        LET g == Geometry(last.bbox)
        IN  /\ Approaches(last.pre.prev_cx, smoother.prev_cx, g.cx)
            /\ Approaches(last.pre.prev_cy, smoother.prev_cy, g.cy)

\* C18: for every clipped motion magnitude and confidence some motion term
\* and some confidence term have positive membership, some rule fires with
\* positive strength, and the inference does not take the 0.3 fallback.
C18_Coverage ==
    last.op \in {"probe", "infer"} =>
        /\ \E mt \in MotionTerms : trapmf(last.motion, MotionMF[mt]) > 0
        /\ \E ct \in ConfidenceTerms : trapmf(last.clipped, ConfidenceMF[ct]) > 0
        /\ FiringRules(last.motion, last.clipped) # {}
        /\ last.op = "infer" => ~last.fallback

\* the inference ran where the small motion term and the low confidence term
\* have just ended (motion 8, confidence 0.5): one rule fires, no fallback
C18_Witness ==
    /\ last.op = "infer"
    /\ last.motion = Px(8)
    /\ last.clipped = 50
    /\ trapmf(last.motion, MotionMF["small"]) = 0
    /\ trapmf(last.clipped, ConfidenceMF["low"]) = 0
    /\ Cardinality(FiringRules(last.motion, last.clipped)) = 1
    /\ ~last.fallback

\* C19 (as claimed): the first box smoothed after smoothing was switched off
\* and on again is drawn as the detector gave it.
C19_ResumeFromColdStart ==
    (live.op = "process_frame" /\ live.resumed) => live.drawn[1] = live.raw[1]

====
